---- MODULE Spec2Model ----
(***************************************************************************)
(* A model of the 6502 instruction core of src/src/cpu.rs: the register    *)
(* file, the flag register, the byte array behind the Mem trait, the       *)
(* addressing resolver, the instruction handlers and the fetch / decode /  *)
(* execute loop of CPU::run, one action per loop iteration.                *)
(*                                                                         *)
(* Registers keep their width: u8 values live in 0..255, u16 values in     *)
(* 0..65535, wrapping_add is addition modulo the width.  A Rust panic      *)
(* (index out of bounds, expect on a missing table entry, todo!) ends the  *)
(* process: it is recorded in fault and the model stops in mode            *)
(* "panicked".                                                             *)
(***************************************************************************)
EXTENDS Integers, Sequences, FiniteSets, TLC

VARIABLES
    register_a,       \* CPU.register_a : u8
    register_x,       \* CPU.register_x : u8
    register_y,       \* CPU.register_y : u8
    status,           \* CPU.status : CpuFlags, as its bits() byte
    program_counter,  \* CPU.program_counter : u16
    stack_pointer,    \* CPU.stack_pointer : u8
    memory,           \* CPU.memory : [u8; 0xFFFF], kept sparse (see Peek)
    mode,             \* "idle" (caller holds the CPU), "running" (inside run's loop), "panicked"
    fault,            \* the panic that ended the process, or "none"
    steps,            \* loop iterations of the current run that completed without returning
    calls,            \* number of calls the caller has made so far
    last              \* the operation that produced this state: [op, a1, a2]

vars == <<register_a, register_x, register_y, status, program_counter,
          stack_pointer, memory, mode, fault, steps, calls, last>>

----------------------------------------------------------------------------
(* Widths *)

Byte == 256
Word == 65536

\* u8::wrapping_add
wrapping_add8(a, b) == (a + b) % Byte

\* u16::wrapping_add
wrapping_add16(a, b) == (a + b) % Word

----------------------------------------------------------------------------
(* CpuFlags, src/src/cpu.rs:29-38 *)

CARRY             == 1
ZERO              == 2
INTERRUPT_DISABLE == 4
DECIMAL_MODE      == 8
BREAK             == 16
BREAK2            == 32
OVERFLOW          == 64
NEGATIV           == 128

FlagMasks == {CARRY, ZERO, INTERRUPT_DISABLE, DECIMAL_MODE, BREAK, BREAK2, OVERFLOW, NEGATIV}

\* CpuFlags::contains for a single flag
contains(bits, flag) == (bits \div flag) % 2 = 1

\* CpuFlags::insert
insert(bits, flag) == IF contains(bits, flag) THEN bits ELSE bits + flag

\* variant that clears the flag together with every higher bit
remove_with_higher_bits(bits, flag) == bits % flag

\* CpuFlags::remove
remove(bits, flag) == IF contains(bits, flag) THEN bits - flag ELSE bits

\* CpuFlags::from_bits_truncate: every one of the eight bits is a declared flag
from_bits_truncate(bits) == bits % Byte

STACK       == \H0100
STACK_RESET == \Hfd

\* the power-on flags literal 0b100100 of new and reset
POWER_ON_FLAGS == 36

----------------------------------------------------------------------------
(* The byte array.  memory: [u8; 0xFFFF] has 0xFFFF = 65535 entries, all    *)
(* zero after new.  It is kept as a function from the addresses that hold  *)
(* a non-zero byte to that byte; every other index below MEMORY_SIZE holds  *)
(* zero.                                                                   *)

MEMORY_SIZE == \HFFFF

Peek(m, addr) == IF addr \in DOMAIN m THEN m[addr] ELSE 0

Poke(m, addr, data) ==
    IF data = 0
    THEN [a \in (DOMAIN m) \ {addr} |-> m[a]]
    ELSE [a \in (DOMAIN m) \cup {addr} |-> IF a = addr THEN data ELSE m[a]]

EmptyMemory == [a \in {} |-> 0]

----------------------------------------------------------------------------
(* A CPU value as a record, so that methods compose as operators.  The     *)
(* field fault is "none" until a panic unwinds out of the method.          *)

Self ==
    [register_a |-> register_a, register_x |-> register_x, register_y |-> register_y,
     status |-> status, program_counter |-> program_counter,
     stack_pointer |-> stack_pointer, memory |-> memory, fault |-> "none"]

Fail(s, f) == [s EXCEPT !.fault = f]

Ok(v) == [fault |-> "none", val |-> v]

Err(f) == [fault |-> f, val |-> 0]

IndexOutOfBounds == "index out of bounds"

\* impl Mem for CPU: self.memory[addr as usize]
mem_read(s, addr) ==
    IF addr < MEMORY_SIZE THEN Ok(Peek(s.memory, addr)) ELSE Err(IndexOutOfBounds)

\* impl Mem for CPU: self.memory[addr as usize] = data
mem_write(s, addr, data) ==
    IF addr < MEMORY_SIZE
    THEN [s EXCEPT !.memory = Poke(s.memory, addr, data)]
    ELSE Fail(s, IndexOutOfBounds)

\* Mem::mem_read_u16.  pos + 1 is evaluated only after mem_read(pos) returned,
\* so pos <= 0xFFFE there and the u16 addition cannot overflow.
mem_read_u16(s, pos) ==
    LET lo == mem_read(s, pos)
    IN  IF lo.fault # "none" THEN lo
        ELSE LET hi == mem_read(s, pos + 1)
             IN  IF hi.fault # "none" THEN hi
                 ELSE Ok(hi.val * 256 + lo.val)

\* big-endian variant: the high byte lands on pos
mem_write_u16_big_endian(s, pos, data) ==
    LET hi == data \div 256
        lo == data % 256
        s1 == mem_write(s, pos, hi)
    IN  IF s1.fault # "none" THEN s1
        ELSE mem_write(s1, pos + 1, lo)

\* Mem::mem_write_u16: low byte first, then the high byte at pos + 1
mem_write_u16(s, pos, data) ==
    LET hi == data \div 256
        lo == data % 256
        s1 == mem_write(s, pos, lo)
    IN  IF s1.fault # "none" THEN s1
        ELSE mem_write(s1, pos + 1, hi)

----------------------------------------------------------------------------
(* AddressingMode, src/src/cpu.rs:56-68 *)

AddressingMode ==
    {"Immediate", "ZeroPage", "ZeroPage_X", "ZeroPage_Y", "Absolute", "Absolute_X",
     "Absolute_Y", "Indirect_X", "Indirect_Y", "NoneAddressing"}

----------------------------------------------------------------------------
(* opscodes::OPCODES_MAP.  The table lives in the crate's opscodes module; *)
(* it has one row per legal opcode byte (151 rows), each with its          *)
(* addressing mode and its total length in bytes.  Rows are grouped here   *)
(* by mode; branches, jumps and the accumulator forms carry                *)
(* NoneAddressing.                                                         *)

OpsImmediate  == {\H69, \H29, \HC9, \HE0, \HC0, \H49, \HA9, \HA2, \HA0, \H09, \HE9}
OpsZeroPage   == {\H65, \H25, \H06, \H24, \HC5, \HE4, \HC4, \HC6, \H45, \HE6, \HA5,
                  \HA6, \HA4, \H46, \H05, \H26, \H66, \HE5, \H85, \H86, \H84}
OpsZeroPage_X == {\H75, \H35, \H16, \HD5, \HD6, \H55, \HF6, \HB5, \HB4, \H56, \H15,
                  \H36, \H76, \HF5, \H95, \H94}
OpsZeroPage_Y == {\HB6, \H96}
OpsAbsolute   == {\H6D, \H2D, \H0E, \H2C, \HCD, \HEC, \HCC, \HCE, \H4D, \HEE, \HAD,
                  \HAE, \HAC, \H4E, \H0D, \H2E, \H6E, \HED, \H8D, \H8E, \H8C}
OpsAbsolute_X == {\H7D, \H3D, \H1E, \HDD, \HDE, \H5D, \HFE, \HBD, \HBC, \H5E, \H1D,
                  \H3E, \H7E, \HFD, \H9D}
OpsAbsolute_Y == {\H79, \H39, \HD9, \H59, \HB9, \HBE, \H19, \HF9, \H99}
OpsIndirect_X == {\H61, \H21, \HC1, \H41, \HA1, \H01, \HE1, \H81}
OpsIndirect_Y == {\H71, \H31, \HD1, \H51, \HB1, \H11, \HF1, \H91}
\* one-byte instructions: BRK, flag set/clear, stack, transfers, INX/INY/DEX/DEY,
\* NOP, RTI/RTS and the accumulator shifts
OpsNone1      == {\H00, \H18, \HD8, \H58, \HB8, \HCA, \H88, \HE8, \HC8, \HEA, \H48,
                  \H08, \H68, \H28, \H40, \H60, \H38, \HF8, \H78, \HAA, \HA8, \HBA,
                  \H8A, \H9A, \H98, \H0A, \H4A, \H2A, \H6A}
\* relative branches
OpsNone2      == {\H90, \HB0, \HF0, \H30, \HD0, \H10, \H50, \H70}
\* JMP absolute, JMP indirect, JSR
OpsNone3      == {\H4C, \H6C, \H20}

OpCodeBytes ==
    OpsImmediate \cup OpsZeroPage \cup OpsZeroPage_X \cup OpsZeroPage_Y \cup OpsAbsolute
    \cup OpsAbsolute_X \cup OpsAbsolute_Y \cup OpsIndirect_X \cup OpsIndirect_Y
    \cup OpsNone1 \cup OpsNone2 \cup OpsNone3

ModeOf(code) ==
    CASE code \in OpsImmediate  -> "Immediate"
      [] code \in OpsZeroPage   -> "ZeroPage"
      [] code \in OpsZeroPage_X -> "ZeroPage_X"
      [] code \in OpsZeroPage_Y -> "ZeroPage_Y"
      [] code \in OpsAbsolute   -> "Absolute"
      [] code \in OpsAbsolute_X -> "Absolute_X"
      [] code \in OpsAbsolute_Y -> "Absolute_Y"
      [] code \in OpsIndirect_X -> "Indirect_X"
      [] code \in OpsIndirect_Y -> "Indirect_Y"
      [] OTHER                  -> "NoneAddressing"

\* variant with length 0 for the one-byte opcodes
LenOf_zero_implied(code) ==
    IF code \in OpsNone1 THEN 0
    ELSE IF code \in OpsAbsolute \cup OpsAbsolute_X \cup OpsAbsolute_Y \cup OpsNone3 THEN 3
    ELSE 2

LenOf(code) ==
    IF code \in OpsNone1 THEN 1
    ELSE IF code \in OpsAbsolute \cup OpsAbsolute_X \cup OpsAbsolute_Y \cup OpsNone3 THEN 3
    ELSE 2

OPCODES_MAP == [code \in OpCodeBytes |-> [mode |-> ModeOf(code), len |-> LenOf(code)]]

----------------------------------------------------------------------------
(* CPU::update_zero_and_negative_flags, src/src/cpu.rs:246-259 *)

\* variant that never clears a Zero flag left by an earlier instruction
update_flags_sticky_zero(s, register_value) ==
    LET z == IF register_value = 0
             THEN insert(s.status, ZERO)
             ELSE s.status
        n == IF contains(register_value, 128)
             THEN insert(z, NEGATIV)
             ELSE remove(z, NEGATIV)
    IN  [s EXCEPT !.status = n]

update_zero_and_negative_flags(s, register_value) ==
    LET z == IF register_value = 0
             THEN insert(s.status, ZERO)
             ELSE remove(s.status, ZERO)
        n == IF contains(register_value, 128)
             THEN insert(z, NEGATIV)
             ELSE remove(z, NEGATIV)
    IN  [s EXCEPT !.status = n]

----------------------------------------------------------------------------
(* CPU::get_operand_address, src/src/cpu.rs:261-311.  The result is        *)
(* Ok(address), or the panic raised on the way: a read outside the array,  *)
(* or the explicit panic of the NoneAddressing arm.                        *)

ModeNotSupported == "mode is not supported"

get_operand_address(s, m) ==
    CASE m = "Immediate" -> Ok(s.program_counter)
      [] m = "ZeroPage" -> mem_read(s, s.program_counter)
      [] m = "Absolute" -> mem_read_u16(s, s.program_counter)
      [] m = "ZeroPage_X" ->
            LET pos == mem_read(s, s.program_counter)
            IN  IF pos.fault # "none" THEN pos
                ELSE Ok(wrapping_add8(pos.val, s.register_x))
      [] m = "ZeroPage_Y" ->
            LET pos == mem_read(s, s.program_counter)
            IN  IF pos.fault # "none" THEN pos
                ELSE Ok(wrapping_add8(pos.val, s.register_y))
      [] m = "Absolute_X" ->
            LET base == mem_read_u16(s, s.program_counter)
            IN  IF base.fault # "none" THEN base
                ELSE Ok(wrapping_add16(base.val, s.register_x))
      [] m = "Absolute_Y" ->
            LET base == mem_read_u16(s, s.program_counter)
            IN  IF base.fault # "none" THEN base
                ELSE Ok(wrapping_add16(base.val, s.register_y))
      [] m = "Indirect_X" ->
            LET base == mem_read(s, s.program_counter)
            IN  IF base.fault # "none" THEN base
                ELSE LET ptr == wrapping_add8(base.val, s.register_x)
                         \* both reads are inside the zero page
                         lo  == mem_read(s, ptr)
                         hi  == mem_read(s, wrapping_add8(ptr, 1))
                     IN  Ok(hi.val * 256 + lo.val)
      [] m = "Indirect_Y" ->
            LET base == mem_read(s, s.program_counter)
            IN  IF base.fault # "none" THEN base
                ELSE LET lo         == mem_read(s, base.val)
                         hi         == mem_read(s, wrapping_add8(base.val, 1))
                         deref_base == hi.val * 256 + lo.val
                     IN  Ok(wrapping_add16(deref_base, s.register_y))
      [] OTHER -> Err(ModeNotSupported)

----------------------------------------------------------------------------
(* Instruction handlers, src/src/cpu.rs:150-210 *)

ldy(s, m) ==
    LET addr == get_operand_address(s, m)
    IN  IF addr.fault # "none" THEN Fail(s, addr.fault)
        ELSE LET data == mem_read(s, addr.val)
             IN  IF data.fault # "none" THEN Fail(s, data.fault)
                 ELSE update_zero_and_negative_flags(
                          [s EXCEPT !.register_y = data.val], data.val)

\* variant that loads A and leaves the flags alone
lda_without_flags(s, m) ==
    LET addr == get_operand_address(s, m)
    IN  IF addr.fault # "none" THEN Fail(s, addr.fault)
        ELSE LET value == mem_read(s, addr.val)
             IN  IF value.fault # "none" THEN Fail(s, value.fault)
                 ELSE [s EXCEPT !.register_a = value.val]

lda(s, m) ==
    LET addr == get_operand_address(s, m)
    IN  IF addr.fault # "none" THEN Fail(s, addr.fault)
        ELSE LET value == mem_read(s, addr.val)
             IN  IF value.fault # "none" THEN Fail(s, value.fault)
                 ELSE update_zero_and_negative_flags(
                          [s EXCEPT !.register_a = value.val], value.val)

ldx(s, m) ==
    LET addr == get_operand_address(s, m)
    IN  IF addr.fault # "none" THEN Fail(s, addr.fault)
        ELSE LET value == mem_read(s, addr.val)
             IN  IF value.fault # "none" THEN Fail(s, value.fault)
                 ELSE update_zero_and_negative_flags(
                          [s EXCEPT !.register_x = value.val], value.val)

\* variant that applies the Zero/Negative rule to the stored value
sta_updates_flags(s, m) ==
    LET addr == get_operand_address(s, m)
    IN  IF addr.fault # "none" THEN Fail(s, addr.fault)
        ELSE update_zero_and_negative_flags(mem_write(s, addr.val, s.register_a), s.register_a)

sta(s, m) ==
    LET addr == get_operand_address(s, m)
    IN  IF addr.fault # "none" THEN Fail(s, addr.fault)
        ELSE mem_write(s, addr.val, s.register_a)

stx(s, m) ==
    LET addr == get_operand_address(s, m)
    IN  IF addr.fault # "none" THEN Fail(s, addr.fault)
        ELSE mem_write(s, addr.val, s.register_x)

sty(s, m) ==
    LET addr == get_operand_address(s, m)
    IN  IF addr.fault # "none" THEN Fail(s, addr.fault)
        ELSE mem_write(s, addr.val, s.register_y)

\* variant with the carry-in of the hardware: A + operand + Carry
adc_with_carry_in(s, m) ==
    LET addr == get_operand_address(s, m)
    IN  IF addr.fault # "none" THEN Fail(s, addr.fault)
        ELSE LET data == mem_read(s, addr.val)
             IN  IF data.fault # "none" THEN Fail(s, data.fault)
                 ELSE LET carry == IF contains(s.status, CARRY) THEN 1 ELSE 0
                          sum   == wrapping_add8(wrapping_add8(s.register_a, data.val), carry)
                      IN  update_zero_and_negative_flags([s EXCEPT !.register_a = sum], sum)

adc(s, m) ==
    LET addr == get_operand_address(s, m)
    IN  IF addr.fault # "none" THEN Fail(s, addr.fault)
        ELSE LET data == mem_read(s, addr.val)
             IN  IF data.fault # "none" THEN Fail(s, data.fault)
                 ELSE LET sum == wrapping_add8(s.register_a, data.val)
                      IN  update_zero_and_negative_flags([s EXCEPT !.register_a = sum], sum)

AddOverflow == "attempt to add with overflow"

\* variant with a checked addition (register_x += 1), which panics at 0xFF
inx_checked(s) ==
    IF s.register_x + 1 >= Byte
    THEN Fail(s, AddOverflow)
    ELSE update_zero_and_negative_flags([s EXCEPT !.register_x = s.register_x + 1],
                                        s.register_x + 1)

inx(s) ==
    LET v == wrapping_add8(s.register_x, 1)
    IN  update_zero_and_negative_flags([s EXCEPT !.register_x = v], v)

\* variant that copies the other way (TXA)
tax_reversed(s) ==
    update_zero_and_negative_flags([s EXCEPT !.register_a = s.register_x], s.register_x)

tax(s) ==
    update_zero_and_negative_flags([s EXCEPT !.register_x = s.register_a], s.register_a)

----------------------------------------------------------------------------
(* CPU::new, CPU::reset, CPU::load, src/src/cpu.rs:109-145 *)

new ==
    [register_a |-> 0, register_x |-> 0, register_y |-> 0,
     stack_pointer |-> STACK_RESET,
     status |-> from_bits_truncate(POWER_ON_FLAGS),
     program_counter |-> 0,
     memory |-> EmptyMemory,
     fault |-> "none"]

RESET_VECTOR == \HFFFC

\* variant that clears all three data registers
reset_clears_y(s) ==
    LET vector == mem_read_u16(s, RESET_VECTOR)
    IN  IF vector.fault # "none" THEN Fail(s, vector.fault)
        ELSE [s EXCEPT !.register_a = 0,
                       !.register_x = 0,
                       !.register_y = 0,
                       !.status = from_bits_truncate(POWER_ON_FLAGS),
                       !.program_counter = vector.val]

reset(s) ==
    LET vector == mem_read_u16(s, RESET_VECTOR)
    IN  IF vector.fault # "none" THEN Fail(s, vector.fault)
        ELSE [s EXCEPT !.register_a = 0,
                       !.register_x = 0,
                       !.status = from_bits_truncate(POWER_ON_FLAGS),
                       !.program_counter = vector.val]

PROGRAM_BASE == \H8000

RangeOutOfBounds == "range end index out of range"

\* A program image (Vec<u8>) is its length and its non-zero bytes by 0-based index
Image(bytes) ==
    [len |-> Len(bytes),
     at  |-> [i \in {j \in 0..(Len(bytes) - 1) : bytes[j + 1] # 0} |-> bytes[i + 1]]]

ByteOf(program, i) == IF i \in DOMAIN program.at THEN program.at[i] ELSE 0

\* variant that zeroes the bytes outside the image
copy_from_slice_clears(m, base, program) ==
    [a \in {base + i : i \in DOMAIN program.at} |-> program.at[a - base]]

\* memory[base..base + len].copy_from_slice(program)
copy_from_slice(m, base, program) ==
    LET kept   == {a \in DOMAIN m : a < base \/ a >= base + program.len}
        copied == {base + i : i \in DOMAIN program.at}
    IN  [a \in kept \cup copied |-> IF a \in copied THEN program.at[a - base] ELSE m[a]]

\* variant that copies the image and leaves the reset vector alone
load_without_vector(s, program) ==
    IF PROGRAM_BASE + program.len > MEMORY_SIZE
    THEN Fail(s, RangeOutOfBounds)
    ELSE [s EXCEPT !.memory = copy_from_slice(s.memory, PROGRAM_BASE, program)]

\* the slice index is checked against the array length before any byte is copied
load(s, program) ==
    IF PROGRAM_BASE + program.len > MEMORY_SIZE
    THEN Fail(s, RangeOutOfBounds)
    ELSE mem_write_u16([s EXCEPT !.memory = copy_from_slice(s.memory, PROGRAM_BASE, program)],
                       RESET_VECTOR, PROGRAM_BASE)

\* variant that loads the image and enters run without the reset
load_and_run_without_reset(s, program) == load(s, program)

\* CPU::load_and_run up to the call of run: load, then reset
load_and_run(s, program) ==
    LET s1 == load(s, program)
    IN  IF s1.fault # "none" THEN s1 ELSE reset(s1)

----------------------------------------------------------------------------
(* One iteration of the loop of CPU::run, src/src/cpu.rs:218-243.          *)
(* The result is the CPU after the iteration and what the loop does next:  *)
(* "continue", "return" (the 0x00 arm) or "panic".                         *)

LdaCodes == {\Ha9, \Ha5, \Hb5, \Had, \Hbd, \Hb9, \Ha1, \Hb1}
StaCodes == {\H85, \H95, \H8d, \H9d, \H99, \H81, \H91}

NotRecognized == "OpCode is not recognized"
NotYetImplemented == "not yet implemented"
\* variant without the 0x00 arm: BRK falls through to the catch-all
dispatch_without_brk(s, code, opcode) ==
    CASE code \in LdaCodes -> lda(s, opcode.mode)
      [] code \in StaCodes -> sta(s, opcode.mode)
      [] code = \H69       -> adc(s, opcode.mode)
      [] code = \HE8       -> inx(s)
      [] code = \HAA       -> tax(s)
      [] OTHER             -> Fail(s, NotYetImplemented)

\* the match on code
dispatch(s, code, opcode) ==
    CASE code \in LdaCodes -> lda(s, opcode.mode)
      [] code \in StaCodes -> sta(s, opcode.mode)
      [] code = \H69       -> adc(s, opcode.mode)
      [] code = \HE8       -> inx(s)
      [] code = \HAA       -> tax(s)
      [] code = \H00       -> s
      [] OTHER             -> Fail(s, NotYetImplemented)

\* variant that never skips the operand bytes
advance_without_skip(s, program_counter_state, opcode) == s

\* if program_counter_state == self.program_counter { self.program_counter += (opcode.len - 1) }
advance(s, program_counter_state, opcode) ==
    IF program_counter_state = s.program_counter
    THEN IF s.program_counter + (opcode.len - 1) >= Word
         THEN Fail(s, AddOverflow)
         ELSE [s EXCEPT !.program_counter = s.program_counter + (opcode.len - 1)]
    ELSE s

\* variant that treats a byte without a table row as a one-byte no-op
run_step_skips_unknown(s) ==
    LET code == mem_read(s, s.program_counter)
    IN  IF code.fault # "none"
        THEN [cpu |-> Fail(s, code.fault), ctl |-> "panic"]
        ELSE LET s1 == [s EXCEPT !.program_counter = s.program_counter + 1]
                 program_counter_state == s1.program_counter
             IN  IF code.val \notin DOMAIN OPCODES_MAP
                 THEN [cpu |-> s1, ctl |-> "continue"]
                 ELSE LET opcode == OPCODES_MAP[code.val]
                          s2     == dispatch(s1, code.val, opcode)
                      IN  IF s2.fault # "none" THEN [cpu |-> s2, ctl |-> "panic"]
                          ELSE IF code.val = \H00 THEN [cpu |-> s2, ctl |-> "return"]
                          ELSE LET s3 == advance(s2, program_counter_state, opcode)
                               IN  [cpu |-> s3,
                                    ctl |-> IF s3.fault # "none" THEN "panic" ELSE "continue"]

run_step(s) ==
    LET code == mem_read(s, s.program_counter)
    IN  IF code.fault # "none"
        THEN [cpu |-> Fail(s, code.fault), ctl |-> "panic"]
        ELSE LET \* the fetch succeeded, so program_counter <= 0xFFFE and += 1 cannot overflow
                 s1 == [s EXCEPT !.program_counter = s.program_counter + 1]
                 program_counter_state == s1.program_counter
             IN  IF code.val \notin DOMAIN OPCODES_MAP
                 THEN [cpu |-> Fail(s1, NotRecognized), ctl |-> "panic"]
                 ELSE LET opcode == OPCODES_MAP[code.val]
                          s2     == dispatch(s1, code.val, opcode)
                      IN  IF s2.fault # "none" THEN [cpu |-> s2, ctl |-> "panic"]
                          ELSE IF code.val = \H00 THEN [cpu |-> s2, ctl |-> "return"]
                          ELSE LET s3 == advance(s2, program_counter_state, opcode)
                               IN  [cpu |-> s3,
                                    ctl |-> IF s3.fault # "none" THEN "panic" ELSE "continue"]

----------------------------------------------------------------------------
(* Inputs *)

\* the caller makes at most MaxCalls calls
MaxCalls == 3

\* every addressing mode of LDA and STA, with the operands that make the 8-bit
\* and the 16-bit additions wrap
AddressingTour ==
    <<\Ha9, \Hff,          \* LDA #$FF
      \Haa,                \* TAX
      \H95, \H01,          \* STA $01,X
      \H81, \H00,          \* STA ($00,X)
      \Ha1, \H00,          \* LDA ($00,X)
      \H85, \Hff,          \* STA $FF
      \H91, \Hff,          \* STA ($FF),Y
      \Hb1, \Hff,          \* LDA ($FF),Y
      \H8d, \H00, \H02,    \* STA $0200
      \H9d, \H01, \Hff,    \* STA $FF01,X
      \H99, \H01, \Hff,    \* STA $FF01,Y
      \Ha5, \Hff,          \* LDA $FF
      \Hb5, \H01,          \* LDA $01,X
      \Had, \H00, \H02,    \* LDA $0200
      \Hbd, \H01, \Hff,    \* LDA $FF01,X
      \Hb9, \H01, \Hff,    \* LDA $FF01,Y
      \H69, \H01,          \* ADC #$01
      \He8,                \* INX
      \H00>>

\* the longest image that ends below the reset vector: its last byte lands on 0xFFFB
BoundaryImage == [len |-> \H7ffc, at |-> (\H0000 :> \He8) @@ (\H7ffb :> \H55)]

\* an image that reaches up to address 0xFFFE: 0x55 lands on 0xFFFC, 0xB5 on 0xFFFE
LongImage == [len |-> \H7fff, at |-> (\H7ffc :> \H55) @@ (\H7ffe :> \Hb5)]

\* an image one byte longer, up to address 0xFFFF
FullImage == [len |-> \H8000, at |-> (\H0000 :> \He8)]

Programs ==
    << Image(<<\Ha9, \H05, \H00>>),                          \* test_0xa9_lda_immidate_load_data
       Image(<<\Ha9, \H00, \H00>>),                          \* test_0xa9_lda_zero_flag
       Image(<<\Ha9, \Hc0, \Haa, \He8, \H00>>),              \* test_5_ops_working_together
       Image(<<\Ha9, \Hff, \He8, \H00>>),                    \* test_inx_overflow
       Image(<<\Ha5, \H10, \H00>>),                          \* test_lda_from_memory
       Image(<<\Ha9, \Hff, \Haa, \He8, \H69, \Hc4, \H00>>),  \* test_adc_from_data
       Image(<<\Ha9, \H01, \H02>>),                          \* 0x02 has no table row
       Image(<<\Ha2, \H01, \H00>>),                          \* LDX #1: a table row without a match arm
       Image(AddressingTour),
       BoundaryImage,
       LongImage,
       FullImage >>

\* the images handed to load_and_run: the programs that are meant to be run
RunInputs == 1..9

\* the images handed to load alone: a short one, and the ones around the vector
LoadInputs == {3, 10, 11, 12}

\* values the caller assigns to the pub fields
ByteInputs == {\H01, \Hff}
FlagInputs == {\H00, \Hff}
PcInputs   == {\H8000, \Hfffe, \Hffff}
SpInputs   == {\H00}

\* raw memory access through the Mem trait; 0x0000 is where a new CPU starts to
\* run, so a write there plants an instruction (INX, or ADC #1 as 0x69 0x01)
AddrInputs  == {\H0010, \Hffff}
WriteInputs == {<<\H0010, \H55>>, <<\H0000, \He8>>, <<\H0000, \H85>>, <<\Hfffe, \Hb5>>, <<\Hffff, \H55>>}
PosInputs   == {\Hfffc, \Hffff}
Write16Inputs ==
    {<<\H0000, \H0169>>, <<\H00ff, \H1234>>, <<\Hfffc, \Hfffe>>, <<\Hfffd, \Habcd>>,
     <<\Hfffe, \H8001>>, <<\Hffff, \H1234>>}

----------------------------------------------------------------------------
(* The state machine *)

Commit(s) ==
    /\ register_a' = s.register_a
    /\ register_x' = s.register_x
    /\ register_y' = s.register_y
    /\ status' = s.status
    /\ program_counter' = s.program_counter
    /\ stack_pointer' = s.stack_pointer
    /\ memory' = s.memory
    /\ fault' = s.fault

\* a call made by the caller on the CPU it holds: the call returns, or its panic ends the process
Call(s, op, a1, a2) ==
    /\ Commit(s)
    /\ mode' = IF s.fault # "none" THEN "panicked" ELSE "idle"
    /\ calls' = calls + 1
    /\ last' = [op |-> op, a1 |-> a1, a2 |-> a2]
    /\ UNCHANGED steps

CanCall == mode = "idle" /\ calls < MaxCalls

Init ==
    /\ register_a = new.register_a
    /\ register_x = new.register_x
    /\ register_y = new.register_y
    /\ status = new.status
    /\ program_counter = new.program_counter
    /\ stack_pointer = new.stack_pointer
    /\ memory = new.memory
    /\ fault = new.fault
    /\ mode = "idle"
    /\ steps = 0
    /\ calls = 0
    /\ last = [op |-> "new", a1 |-> 0, a2 |-> 0]

Reset ==
    /\ CanCall
    /\ Call(reset(Self), "reset", 0, 0)

Load(i) ==
    /\ CanCall
    /\ Call(load(Self, Programs[i]), "load", i, 0)

\* run enters its loop; the iterations are the Step actions
Run ==
    /\ CanCall
    /\ Commit(Self)
    /\ mode' = "running"
    /\ steps' = 0
    /\ calls' = calls + 1
    /\ last' = [op |-> "run", a1 |-> 0, a2 |-> 0]

\* load, reset, then run's loop is entered
LoadAndRun(i) ==
    /\ CanCall
    /\ LET s2 == load_and_run(Self, Programs[i])
       IN  /\ Commit(s2)
           /\ mode' = IF s2.fault # "none" THEN "panicked" ELSE "running"
    /\ steps' = 0
    /\ calls' = calls + 1
    /\ last' = [op |-> "load_and_run", a1 |-> i, a2 |-> 0]

Step ==
    /\ mode = "running"
    /\ LET r == run_step(Self)
       IN  /\ Commit(r.cpu)
           /\ mode' = CASE r.ctl = "continue" -> "running"
                        [] r.ctl = "return"   -> "idle"
                        [] OTHER              -> "panicked"
           /\ steps' = IF r.ctl = "continue" THEN steps + 1 ELSE steps
           /\ last' = [op |-> r.ctl, a1 |-> program_counter, a2 |-> Peek(memory, program_counter)]
    /\ UNCHANGED calls

MemRead(addr) ==
    /\ CanCall
    /\ LET r == mem_read(Self, addr)
       IN  Call(Fail(Self, r.fault), "mem_read", addr, r.val)

MemWrite(addr, data) ==
    /\ CanCall
    /\ Call(mem_write(Self, addr, data), "mem_write", addr, data)

MemReadU16(pos) ==
    /\ CanCall
    /\ LET r == mem_read_u16(Self, pos)
       IN  Call(Fail(Self, r.fault), "mem_read_u16", pos, r.val)

MemWriteU16(pos, data) ==
    /\ CanCall
    /\ Call(mem_write_u16(Self, pos, data), "mem_write_u16", pos, data)

\* the fields of CPU are pub: the caller assigns them
SetRegisterA(v) ==
    /\ CanCall
    /\ Call([Self EXCEPT !.register_a = v], "set register_a", v, 0)

SetRegisterX(v) ==
    /\ CanCall
    /\ Call([Self EXCEPT !.register_x = v], "set register_x", v, 0)

SetRegisterY(v) ==
    /\ CanCall
    /\ Call([Self EXCEPT !.register_y = v], "set register_y", v, 0)

SetStatus(v) ==
    /\ CanCall
    /\ Call([Self EXCEPT !.status = from_bits_truncate(v)], "set status", v, 0)

SetProgramCounter(v) ==
    /\ CanCall
    /\ Call([Self EXCEPT !.program_counter = v], "set program_counter", v, 0)

SetStackPointer(v) ==
    /\ CanCall
    /\ Call([Self EXCEPT !.stack_pointer = v], "set stack_pointer", v, 0)

Next ==
    \/ Reset
    \/ \E i \in LoadInputs : Load(i)
    \/ Run
    \/ \E i \in RunInputs : LoadAndRun(i)
    \/ Step
    \/ \E addr \in AddrInputs : MemRead(addr)
    \/ \E w \in WriteInputs : MemWrite(w[1], w[2])
    \/ \E pos \in PosInputs : MemReadU16(pos)
    \/ \E w \in Write16Inputs : MemWriteU16(w[1], w[2])
    \/ \E v \in ByteInputs : SetRegisterA(v)
    \/ \E v \in ByteInputs : SetRegisterX(v)
    \/ \E v \in ByteInputs : SetRegisterY(v)
    \/ \E v \in FlagInputs : SetStatus(v)
    \/ \E v \in PcInputs : SetProgramCounter(v)
    \/ \E v \in SpInputs : SetStackPointer(v)

Spec == Init /\ [][Next]_vars

----------------------------------------------------------------------------
(* Properties *)

\* the byte run fetches in this state, when the fetch succeeds
Fetched == mem_read(Self, program_counter)

\* a loop iteration that ran a handler to completion and went on to the next one
Completes == mode = "running" /\ last'.op = "continue"

\* C1: a step that executes a non-halting opcode at address p with table length L
\* leaves program_counter at p + L.
C1_StepAdvancesByLength ==
    [][Completes =>
          program_counter' = program_counter + OPCODES_MAP[Fetched.val].len]_vars

\* a three-byte instruction (absolute addressing) has been stepped over
C1_Witness ==
    /\ last.op = "continue"
    /\ OPCODES_MAP[last.a2].len = 3
    /\ program_counter = last.a1 + 3


\* C2: after an LDA, TAX or INX step left v in its destination register, Zero is
\* set iff v = 0, Negative iff bit 7 of v is set, and the six other status bits
\* are as before the step.
C2_ZeroNegativeRule ==
    [][(Completes /\ Fetched.val \in LdaCodes \cup {\HAA, \HE8}) =>
          LET \* the register the step writes: A for LDA, X for TAX and INX
              v == IF Fetched.val \in LdaCodes THEN register_a' ELSE register_x'
          IN  /\ contains(status', ZERO) <=> v = 0
              /\ contains(status', NEGATIV) <=> v >= 128
              /\ \A f \in FlagMasks \ {ZERO, NEGATIV} :
                    contains(status', f) <=> contains(status, f)]_vars

\* INX ran with every status bit set beforehand: Zero and Negative were cleared,
\* Carry and Overflow survived
C2_Witness ==
    /\ last.op = "continue"
    /\ last.a2 = \HE8
    /\ register_x = 1
    /\ ~contains(status, ZERO)
    /\ ~contains(status, NEGATIV)
    /\ contains(status, CARRY)
    /\ contains(status, OVERFLOW)

\* C3: when run fetches 0x00 it returns to the caller without a panic, and the
\* halting step changes only program_counter, to the address of the 0x00 byte + 1.
C3_BreakReturns ==
    [][(mode = "running" /\ Fetched = Ok(\H00)) =>
          /\ mode' = "idle"
          /\ fault' = "none"
          /\ program_counter' = program_counter + 1
          /\ UNCHANGED <<register_a, register_x, register_y, status,
                         stack_pointer, memory>>]_vars

\* a run that executed instructions has returned through BRK
C3_Witness ==
    /\ last.op = "return"
    /\ mode = "idle"
    /\ steps > 0
    /\ register_a # 0

\* C4: a fetched byte without a table row makes run panic with the unknown-opcode
\* message at that step; A, X, Y, status and memory are as before the step, and
\* nothing runs after the panic.
C4_UnknownOpcodeAborts ==
    [][/\ (mode = "running" /\ Fetched.fault = "none"
                /\ Fetched.val \notin DOMAIN OPCODES_MAP) =>
            /\ mode' = "panicked"
            /\ fault' = NotRecognized
            /\ UNCHANGED <<register_a, register_x, register_y, status, memory, steps>>
       /\ mode = "panicked" => UNCHANGED vars]_vars

\* LDA #1 ran, then the byte 0x02 stopped the run
C4_Witness ==
    /\ mode = "panicked"
    /\ fault = NotRecognized
    /\ last.a2 = \H02
    /\ register_a = 1
    /\ steps = 1

\* C5: mem_read and mem_write are total over 0x0000..=0xFFFF: a read returns a
\* byte, a write stores its byte, and nothing fails because of the address it
\* touches.
C5_MemoryIsTotal ==
    /\ last.op = "mem_read" => fault = "none"
    /\ last.op = "mem_write" => fault = "none" /\ Peek(memory, last.a1) = last.a2
    /\ fault \notin {IndexOutOfBounds, RangeOutOfBounds}

\* C6: reset zeroes A and X, sets status to Interrupt-Disable + Break2 only, loads
\* program_counter from the little-endian vector at 0xFFFC/0xFFFD, and leaves Y
\* and the memory alone.
C6_Reset ==
    [][(mode = "idle" /\ last'.op = "reset") =>
          /\ mode' = "idle"
          /\ register_a' = 0
          /\ register_x' = 0
          /\ \A f \in FlagMasks :
                contains(status', f) <=> f \in {INTERRUPT_DISABLE, BREAK2}
          /\ program_counter' = Peek(memory, \Hfffc) + 256 * Peek(memory, \Hfffd)
          /\ UNCHANGED <<register_y, memory>>]_vars

\* reset ran with a non-zero Y and a vector of 0xFFFE
C6_Witness ==
    /\ last.op = "reset"
    /\ register_y # 0
    /\ program_counter = \Hfffe
    /\ status = 36

\* the image bytes are in memory from PROGRAM_BASE on, over the first n bytes
StoredAtBase(m, program, n) ==
    /\ \A i \in DOMAIN program.at : i < n => Peek(m, PROGRAM_BASE + i) = program.at[i]
    /\ \A a \in DOMAIN m :
          (a >= PROGRAM_BASE /\ a < PROGRAM_BASE + n) => m[a] = ByteOf(program, a - PROGRAM_BASE)

LoadPost(program) ==
    /\ mode' = "idle"
    /\ StoredAtBase(memory', program, program.len)
    /\ Peek(memory', \Hfffc) = \H00
    /\ Peek(memory', \Hfffd) = \H80
    /\ reset(Self').program_counter = \H8000
    /\ UNCHANGED <<register_a, register_x, register_y, status,
                   program_counter, stack_pointer>>

\* C7 as stated: for any program image p, load(p) stores every byte p[i] at
\* 0x8000 + i and the vector 0x8000 at 0xFFFC/0xFFFD, and changes no register.
C7_LoadAnyImage ==
    [][(mode = "idle" /\ last'.op = "load" /\ fault' = "none") =>
          LoadPost(Programs[last'.a1])]_vars

\* the length of the longest image that ends below the reset vector
MaxImageLen == RESET_VECTOR - PROGRAM_BASE

\* C7, amended: for any program image p of at most 0x7FFC bytes, load(p) returns,
\* stores every byte p[i] at 0x8000 + i and the vector 0x8000 at 0xFFFC/0xFFFD,
\* so that a following reset sets program_counter to 0x8000, and changes no
\* register.
C7_LoadImageBelowVector ==
    [][(mode = "idle" /\ last'.op = "load" /\ Programs[last'.a1].len <= MaxImageLen) =>
          LoadPost(Programs[last'.a1])]_vars

\* the longest image below the vector was loaded over a non-zero A and an older
\* vector: its first and last bytes and the new vector are in memory
C7_Witness ==
    /\ last.op = "load"
    /\ mode = "idle"
    /\ Programs[last.a1].len = MaxImageLen
    /\ register_a = \Hff
    /\ Peek(memory, \H8000) = \He8
    /\ Peek(memory, \Hfffb) = \H55
    /\ Peek(memory, \Hfffc) = \H00
    /\ Peek(memory, \Hfffd) = \H80

\* C8: stack_pointer is 0xFD after new and after every reset.
C8_StackPointerReset ==
    last.op \in {"new", "reset"} => stack_pointer = STACK_RESET

\* the address each mode's formula gives, with reads that are total
FormulaAddress(s, m) ==
    LET read(a)   == Peek(s.memory, a % Word)
        read16(a) == read(a) + 256 * read(a + 1)
        pc        == s.program_counter
    IN  CASE m = "Immediate"  -> pc
          [] m = "ZeroPage"   -> read(pc)
          [] m = "ZeroPage_X" -> (read(pc) + s.register_x) % 256
          [] m = "ZeroPage_Y" -> (read(pc) + s.register_y) % 256
          [] m = "Absolute"   -> read16(pc)
          [] m = "Absolute_X" -> (read16(pc) + s.register_x) % 65536
          [] m = "Absolute_Y" -> (read16(pc) + s.register_y) % 65536
          [] m = "Indirect_X" ->
                LET ptr == (read(pc) + s.register_x) % 256
                IN  read(ptr) + 256 * read((ptr + 1) % 256)
          [] m = "Indirect_Y" ->
                LET base == read(pc)
                IN  (read(base) + 256 * read((base + 1) % 256) + s.register_y) % 65536

\* the CPU as a handler sees it: the opcode byte fetched, program_counter on the operand
AtOperand == [Self EXCEPT !.program_counter = program_counter + 1]

\* run is about to call a handler that resolves an operand address
ResolvesOperand ==
    /\ mode = "running"
    /\ Fetched.fault = "none"
    /\ Fetched.val \in LdaCodes \cup StaCodes \cup {\H69}

\* C9: for every mode but Implicit and every program_counter, X, Y and memory,
\* get_operand_address returns the address of the mode's formula.
C9_OperandAddress ==
    ResolvesOperand =>
        \A m \in AddressingMode \ {"NoneAddressing"} :
            get_operand_address(AtOperand, m) = Ok(FormulaAddress(AtOperand, m))

\* C10: where both bytes are addressable, mem_write_u16(pos, d) followed by
\* mem_read_u16(pos) returns d, the low byte of d is at pos and the high byte at
\* pos + 1, and no other byte changed.
C10_RoundTrip ==
    [][(mode = "idle" /\ last'.op = "mem_write_u16"
            /\ last'.a1 < MEMORY_SIZE /\ last'.a1 + 1 < MEMORY_SIZE) =>
          LET pos == last'.a1
              d   == last'.a2
          IN  /\ mode' = "idle"
              /\ mem_read_u16(Self', pos) = Ok(d)
              /\ mem_read(Self', pos) = Ok(d % 256)
              /\ mem_read(Self', pos + 1) = Ok(d \div 256)
              /\ \A a \in ((DOMAIN memory) \cup (DOMAIN memory')) \ {pos, pos + 1} :
                    Peek(memory', a) = Peek(memory, a)]_vars

\* 0xABCD was written at 0xFFFD, the last position with two addressable bytes
C10_Witness ==
    /\ last = [op |-> "mem_write_u16", a1 |-> \Hfffd, a2 |-> \Habcd]
    /\ Peek(memory, \Hfffd) = \Hcd
    /\ Peek(memory, \Hfffe) = \Hab

----------------------------------------------------------------------------
(* Properties of the instruction handlers *)

\* C11: a load for A, X or Y stores the operand byte into that register (0xA2 is
\* LDX #imm, 0xA0 is LDY #imm), a store for A, X or Y is executed, and no opcode
\* that has a table row makes run abort for want of a handler.
C11_EveryTableRowExecutes ==
    [][(mode = "running" /\ Fetched.fault = "none" /\ Fetched.val \in DOMAIN OPCODES_MAP) =>
          /\ fault' # NotYetImplemented
          /\ Fetched.val = \Ha2 => register_x' = Peek(memory, program_counter + 1)
          /\ Fetched.val = \Ha0 => register_y' = Peek(memory, program_counter + 1)]_vars

\* C12: an STA step writes A to the resolved address and otherwise only advances
\* program_counter: status, A, X, Y, stack_pointer and every other byte stay.
C12_StoreFrame ==
    [][(Completes /\ Fetched.val \in StaCodes) =>
          LET addr == FormulaAddress(AtOperand, OPCODES_MAP[Fetched.val].mode)
          IN  /\ memory' = Poke(memory, addr, register_a)
              /\ program_counter' = program_counter + OPCODES_MAP[Fetched.val].len
              /\ UNCHANGED <<register_a, register_x, register_y, status, stack_pointer>>]_vars

\* STA $FF01,X ran with A = X = 0xFF: the byte 0xFF is at 0x0000, Negative is
\* still the flag of the load before it
C12_Witness ==
    /\ last.op = "continue"
    /\ last.a2 = \H9d
    /\ register_a = \Hff
    /\ register_x = \Hff
    /\ Peek(memory, \H0000) = \Hff
    /\ contains(status, NEGATIV)

C14_IncrementWraps ==
    [][(mode = "running" /\ Fetched = Ok(\HE8)) =>
          /\ mode' = "running"
          /\ register_x' = (register_x + 1) % 256
          /\ register_x = \Hff =>
                register_x' = 0 /\ contains(status', ZERO) /\ ~contains(status', NEGATIV)
          /\ register_x = \H00 => register_x' = 1]_vars

\* INX ran on X = 0xFF after LDA #$FF, TAX
C14_Witness ==
    /\ last.op = "continue"
    /\ last.a2 = \HE8
    /\ register_a = \Hff
    /\ register_x = 0
    /\ contains(status, ZERO)
    /\ ~contains(status, NEGATIV)

----------------------------------------------------------------------------
(* The unit tests of cpu.rs as a state machine: a new CPU, at most one       *)
(* mem_write that seeds the zero page, then one load_and_run, for a sample   *)
(* of operand bytes.  run's loop is not interrupted, so Step is weakly fair. *)

ByteSamples == {\H00, \H01, \H05, \H0a, \H7f, \H80, \Hc0, \Hff}
ZeroPageSamples == {\H00, \H10, \Hff}
SeedSamples == {\H00, \H55, \H80}

LdaImmediate(v) == <<\Ha9, v, \H00>>
LdaTax(v)       == <<\Ha9, v, \Haa, \H00>>
LdaTaxInx(v)    == <<\Ha9, v, \Haa, \He8, \H00>>
LdaZeroPage(z)  == <<\Ha5, z, \H00>>

TestPrograms ==
    {LdaImmediate(v) : v \in ByteSamples} \cup {LdaTax(v) : v \in ByteSamples}
    \cup {LdaTaxInx(v) : v \in ByteSamples} \cup {LdaZeroPage(z) : z \in ZeroPageSamples}

\* cpu.mem_write(z, v) right after CPU::new()
TestSeed(z, v) ==
    /\ CanCall
    /\ last.op = "new"
    /\ Call(mem_write(Self, z, v), "mem_write", z, v)

\* cpu.load_and_run(vec![...]): load, reset, then run's loop is entered
TestLoadAndRun(bytes) ==
    /\ CanCall
    /\ last.op \in {"new", "mem_write"}
    /\ LET s2 == load_and_run(Self, Image(bytes))
       IN  /\ Commit(s2)
           /\ mode' = IF s2.fault # "none" THEN "panicked" ELSE "running"
    /\ steps' = 0
    /\ calls' = calls + 1
    /\ last' = [op |-> "load_and_run", a1 |-> Len(bytes), a2 |-> 0]

TestNext ==
    \/ \E z \in ZeroPageSamples, v \in SeedSamples : TestSeed(z, v)
    \/ \E bytes \in TestPrograms : TestLoadAndRun(bytes)
    \/ Step

TestSpec == Init /\ [][TestNext]_vars /\ WF_vars(Step)

\* the image at PROGRAM_BASE is the given byte sequence
ProgramAt(bytes) ==
    \A i \in 1..Len(bytes) : Peek(memory, PROGRAM_BASE + i - 1) = bytes[i]

\* the byte after the first opcode of the image: v, or z for the zero-page load
Operand == Peek(memory, PROGRAM_BASE + 1)

\* load_and_run has loaded the image, reset the CPU and is about to fetch the first opcode
Started == mode = "running" /\ last.op = "load_and_run"

\* run has returned through BRK
Halted == mode = "idle" /\ fault = "none" /\ last.op = "return"

\* C15: load_and_run of [0xA9, v, 0x00] on a new CPU halts normally with A = v,
\* Zero set iff v = 0 and Negative set iff v >= 0x80.
C15_LdaImmediate ==
    (Started /\ ProgramAt(LdaImmediate(Operand))) ~>
        (/\ Halted
         /\ ProgramAt(LdaImmediate(Operand))
         /\ register_a = Operand
         /\ contains(status, ZERO) <=> Operand = 0
         /\ contains(status, NEGATIV) <=> Operand >= 128)

\* test_0xa9_lda_negative_flag has halted
C15_Witness ==
    /\ Halted
    /\ ProgramAt(LdaImmediate(\Hc0))
    /\ register_a = \Hc0
    /\ contains(status, NEGATIV)
    /\ ~contains(status, ZERO)

\* C16: load_and_run of [0xA9, v, 0xAA, 0x00] halts with X = v and A = v, and of
\* [0xA9, v, 0xAA, 0xE8, 0x00] with X = (v + 1) mod 256 and A = v.
C16_LdaTaxInx ==
    /\ (Started /\ ProgramAt(LdaTax(Operand))) ~>
          (/\ Halted
           /\ ProgramAt(LdaTax(Operand))
           /\ register_x = Operand
           /\ register_a = Operand)
    /\ (Started /\ ProgramAt(LdaTaxInx(Operand))) ~>
          (/\ Halted
           /\ ProgramAt(LdaTaxInx(Operand))
           /\ register_x = (Operand + 1) % 256
           /\ register_a = Operand)

\* test_5_ops_working_together has halted
C16_Witness ==
    /\ Halted
    /\ ProgramAt(LdaTaxInx(\Hc0))
    /\ register_x = \Hc1
    /\ register_a = \Hc0
    /\ program_counter = PROGRAM_BASE + 5

\* C17: a byte v written at zero-page address z with mem_write survives load and
\* reset, and load_and_run of [0xA5, z, 0x00] then halts with A = v.
C17_SeedSurvives ==
    /\ [][(last.op = "mem_write" /\ last'.op = "load_and_run") =>
             /\ mode' = "running"
             /\ Peek(memory', last.a1) = last.a2]_vars
    /\ (Started /\ ProgramAt(LdaZeroPage(Operand))) ~>
          (/\ Halted
           /\ ProgramAt(LdaZeroPage(Operand))
           /\ register_a = Peek(memory, Operand))

\* test_lda_from_memory has halted
C17_Witness ==
    /\ Halted
    /\ ProgramAt(LdaZeroPage(\H10))
    /\ Peek(memory, \H10) = \H55
    /\ register_a = \H55

\* load_and_run of [0xA9, 0x05, 0x00] has returned
ImmediateLoadHalted == Halted /\ ProgramAt(LdaImmediate(\H05))

\* C18 as stated: the program [0xA9, 0x05, 0x00] halts after 2 executed steps,
\* not counting the halt instruction.
C18_TwoStepsBeforeHalt ==
    ImmediateLoadHalted => steps = 2

\* C18, amended: the program [0xA9, 0x05, 0x00] run from reset never panics and
\* halts after 1 executed step (the LDA), not counting the halt instruction; the
\* BRK is the second iteration of the loop.
C18_OneStepBeforeHalt ==
    ProgramAt(LdaImmediate(\H05)) =>
        /\ fault = "none"
        /\ steps <= 1
        /\ Halted => (steps = 1 /\ program_counter = PROGRAM_BASE + 3)

\* test_0xa9_lda_immidate_load_data has halted
C18_Witness ==
    /\ ImmediateLoadHalted
    /\ steps = 1
    /\ register_a = \H05

----------------------------------------------------------------------------
(* Termination of run.  The loop of CPU::run is the only thing that runs    *)
(* between its entry and its return: an iteration that is enabled is taken. *)

\* the order in which a caller prepares the CPU before it enters run
Rank(op) ==
    CASE op = "new"                 -> 0
      [] op = "load"                -> 1
      [] op = "mem_write_u16"       -> 2
      [] op = "set register_x"      -> 3
      [] op = "set program_counter" -> 4
      [] OTHER                      -> 5

\* prepare memory and registers in that order, enter run, and let the loop run
RunNext ==
    \/ Rank(last.op) < 1 /\ \E i \in LoadInputs : Load(i)
    \/ Rank(last.op) < 2 /\ \E w \in Write16Inputs : MemWriteU16(w[1], w[2])
    \/ Rank(last.op) < 3 /\ \E v \in ByteInputs : SetRegisterX(v)
    \/ Rank(last.op) < 4 /\ \E v \in PcInputs : SetProgramCounter(v)
    \/ Rank(last.op) < 5 /\ Run
    \/ Rank(last.op) < 5 /\ \E i \in RunInputs : LoadAndRun(i)
    \/ Step

FairSpec == Init /\ [][RunNext]_vars /\ WF_vars(Step)

\* the CPU as the handler of the fetched opcode leaves it, before run's own advance
Handled ==
    dispatch([Self EXCEPT !.program_counter = program_counter + 1],
             Fetched.val, OPCODES_MAP[Fetched.val])

\* run has ended: it returned in the 0x00 arm or it panicked
Ended == mode # "running" /\ last.op \in {"return", "panic"}

\* C19: no dispatched handler changes program_counter, every completed step
\* strictly increases program_counter by the opcode's length (at least 1), and a
\* run started from any register and memory state ends by the halt opcode or by
\* aborting.
C19_RunTerminates ==
    /\ [][Completes =>
             /\ Handled.program_counter = program_counter + 1
             /\ OPCODES_MAP[Fetched.val].len >= 1
             /\ program_counter' = program_counter + OPCODES_MAP[Fetched.val].len
             /\ program_counter' > program_counter]_vars
    /\ (mode = "running") ~> Ended

\* a run entered with run() at a program counter the caller chose has executed
\* instructions and ended
C19_Witness ==
    /\ Ended
    /\ last.op = "return"
    /\ steps >= 1
    /\ program_counter < PROGRAM_BASE

----------------------------------------------------------------------------
(* What run leaves alone.  The callers here use only new, load, reset, run  *)
(* and load_and_run: no field is assigned and no memory is written directly *)

ApiNext ==
    \/ Reset
    \/ \E i \in LoadInputs : Load(i)
    \/ Run
    \/ \E i \in RunInputs : LoadAndRun(i)
    \/ Step

ApiSpec == Init /\ [][ApiNext]_vars

\* the status bits other than Zero and Negative
OtherFlags(bits) == (bits % ZERO) + ((bits \div INTERRUPT_DISABLE) % 32) * INTERRUPT_DISABLE

====
